---- MODULE Spec2Model ----
(***************************************************************************)
(* Depth-first search driver of chappie (src/search.rs): the Visited       *)
(* tracker, the SearchGoal test, the SearchSpace::expand contract as the   *)
(* repository's test state spaces implement it, and SearchSpace::dfs,      *)
(* one action per pass through its loop.                                   *)
(*                                                                         *)
(* A state space is a table `nodes` (Vec<Vec<(action, state)>>, as in      *)
(* tests::test_dfs_simple_by_ref); the action of a pair is its position in *)
(* the yield order of expand (Left = 0, Right = 1, ..., the labelling of   *)
(* the tests and of RandomGraph's enumerate()).  States 0..NumStates-1 are *)
(* the rows of the table; the state NumStates lies outside of it.          *)
(***************************************************************************)
EXTENDS Integers, Sequences, FiniteSets, TLC

\* ---- bounds ----------------------------------------------------------
NumStates == 2      \* rows of the node table
MaxEdges == 3       \* successor pairs in the whole table
MaxCalls == 2       \* dfs calls made one after the other
ConcEdges == 2      \* successor pairs in the table two interleaved calls share

Domain == 0 .. (NumStates - 1)
States == 0 .. NumStates
Calls == 1 .. MaxCalls
ConcCalls == {1, 2}
Trackers == {1, 2}

VARIABLES
    nodes,        \* the state space: row s is what expand(s) yields
    strict,       \* TRUE: expand panics outside the table (by_ref test); FALSE: yields nothing
    mode,         \* "one": a single call; "seq": calls one after the other; "conc": interleaved
    start,        \* start[c]: start state of call c
    goal,         \* goal[c]: set of states the goal of call c accepts
    pc,           \* pc[c]: "idle", "loop", "done" or "panicked"
    visited,      \* visited[c]: hash_set of the call's Visited
    stack,        \* stack[c]: the call's Vec of (iterator, Option<action>) frames
    result,       \* result[c]: the value dfs returned
    expandCalls,  \* history: expandCalls[c][s] = number of expand(s) calls made by call c
    goalCalls,    \* history: goalCalls[c][s] = number of is_goal(s) calls made by call c
    discovered,   \* history: states call c has tested against the goal
    lastOp        \* history: lastOp[c] = the last call made on the Visited of c, if any

vars == <<nodes, strict, mode, start, goal, pc, visited, stack, result,
          expandCalls, goalCalls, discovered, lastOp>>

inputs == <<nodes, strict, mode, start, goal>>

\* ---- Option<Vec<action>> -------------------------------------------------
Pending == [tag |-> "Pending", path |-> <<>>]
NoPath == [tag |-> "None", path |-> <<>>]
SomePath(p) == [tag |-> "Some", path |-> p]

\* ---- Visited ---------------------------------------------------------------
VisitedNewKept(c) == IF c > 1 THEN visited[c - 1] ELSE {}

VisitedNew(c) == {}

IsVisited(hash_set, value) == value \in hash_set

VisitedInsertReplaces(hash_set, value) == {value}

VisitedInsertNothing(hash_set, value) == hash_set

VisitedInsert(hash_set, value) == hash_set \cup {value}

VisitedOfShared(c) == visited[1]

VisitedOf(c) == visited[c]

InsertReturnsPresent(hash_set, value) == value \in hash_set

\* HashSet::insert: true when the value was not in the set
InsertReturns(hash_set, value) == value \notin hash_set

OpRec(o, b, v, r) == <<[op |-> o, before |-> b, value |-> v, ret |-> r]>>

Checked(c, value) ==
    [lastOp EXCEPT ![c] = OpRec("is_visited", VisitedOf(c), value, IsVisited(VisitedOf(c), value))]

Inserted(c, value) ==
    [lastOp EXCEPT ![c] = OpRec("insert", VisitedOf(c), value, InsertReturns(VisitedOf(c), value))]

\* ---- SearchGoal --------------------------------------------------------------
IsGoal(g, state) == state \in g

\* ---- SearchSpace::expand -------------------------------------------------------
ExpandPanicsNever(state) == FALSE

ExpandPanics(state) == strict /\ state \notin Domain

Expand(state) ==
    IF state \in Domain
    THEN [i \in 1 .. Len(nodes[state]) |-> <<i - 1, nodes[state][i]>>]
    ELSE <<>>

\* ---- iterator and stack helpers --------------------------------------------------
IterRestPeek(iter) == iter

IterRest(iter) == Tail(iter)

FrameUntagged(state, act) == [iter |-> Expand(state), action |-> <<>>, owner |-> state]

Frame(state, act) == [iter |-> Expand(state), action |-> act, owner |-> state]

Top(stk) == stk[Len(stk)]

PopTwo(stk) == IF Len(stk) >= 2 THEN SubSeq(stk, 1, Len(stk) - 2) ELSE <<>>

Pop(stk) == SubSeq(stk, 1, Len(stk) - 1)

Advance(stk) == [stk EXCEPT ![Len(stk)].iter = IterRest(@)]

RECURSIVE FrameActions(_)
FrameActions(stk) ==
    IF stk = <<>> THEN <<>> ELSE stk[1].action \o FrameActions(Tail(stk))

CollectPathNoChain(stk, action) == FrameActions(stk)

CollectPath(stk, action) == FrameActions(stk) \o <<action>>

Bump(f, c, s) == [f EXCEPT ![c][s] = @ + 1]

\* ---- the state spaces ---------------------------------------------------------
EdgeLists ==
    { el \in UNION { [1 .. k -> Domain \X States] : k \in 0 .. MaxEdges } :
        \A i \in 1 .. (Len(el) - 1) : el[i][1] <= el[i + 1][1] }

RowOf(el, s) ==
    LET r == SelectSeq(el, LAMBDA e : e[1] = s)
    IN  [i \in 1 .. Len(r) |-> r[i][2]]

NodesOf(el) == [s \in Domain |-> RowOf(el, s)]

Fresh ==
    /\ pc = [c \in Calls |-> "idle"]
    /\ visited = [c \in Calls |-> {}]
    /\ stack = [c \in Calls |-> <<>>]
    /\ result = [c \in Calls |-> Pending]
    /\ expandCalls = [c \in Calls |-> [s \in States |-> 0]]
    /\ goalCalls = [c \in Calls |-> [s \in States |-> 0]]
    /\ discovered = [c \in Calls |-> {}]
    /\ lastOp = [c \in Calls |-> <<>>]

Inputs(m) ==
    /\ mode = m
    /\ \E el \in EdgeLists : nodes = NodesOf(el)
    /\ strict \in BOOLEAN
    /\ \E s \in States : start = [c \in Calls |-> s]
    /\ \E g \in SUBSET States : goal = [c \in Calls |-> g]
    /\ Fresh

Init == Inputs("one")

SeqInit == Inputs("seq")

\* two calls with their own start and their own target state (the equality
\* goal, impl SearchGoal<T> for T) over one table
ConcInit ==
    /\ mode = "conc"
    /\ \E el \in { e \in EdgeLists : Len(e) <= ConcEdges } : nodes = NodesOf(el)
    /\ strict \in BOOLEAN
    /\ \E s1 \in States, s2 \in States :
           start = [c \in Calls |-> IF c = 1 THEN s1 ELSE s2]
    /\ \E t1 \in States, t2 \in States :
           goal = [c \in Calls |-> IF c = 1 THEN {t1} ELSE {t2}]
    /\ Fresh

\* ---- SearchSpace::dfs ---------------------------------------------------------
CanCall(c) ==
    /\ pc[c] = "idle"
    /\ mode = "one" => c = 1
    /\ mode = "seq" => (IF c = 1 THEN TRUE ELSE pc[c - 1] = "done")
    /\ mode = "conc" => c \in ConcCalls

DfsStartIsGoalEager(c) ==
    /\ CanCall(c)
    /\ IsGoal(goal[c], start[c])
    /\ goalCalls' = Bump(goalCalls, c, start[c])
    /\ discovered' = [discovered EXCEPT ![c] = {start[c]}]
    /\ expandCalls' = Bump(expandCalls, c, start[c])
    /\ visited' = [visited EXCEPT ![c] = VisitedNew(c)]
    /\ result' = [result EXCEPT ![c] = SomePath(<<>>)]
    /\ pc' = [pc EXCEPT ![c] = "done"]
    /\ UNCHANGED <<inputs, stack, lastOp>>

\* lines 48-50: the start satisfies the goal
DfsStartIsGoal(c) ==
    /\ CanCall(c)
    /\ IsGoal(goal[c], start[c])
    /\ goalCalls' = Bump(goalCalls, c, start[c])
    /\ discovered' = [discovered EXCEPT ![c] = {start[c]}]
    /\ result' = [result EXCEPT ![c] = SomePath(<<>>)]
    /\ pc' = [pc EXCEPT ![c] = "done"]
    /\ UNCHANGED <<inputs, visited, stack, expandCalls, lastOp>>

\* lines 48-53: the start does not satisfy the goal; expand(start) is the first frame
DfsStartExpand(c) ==
    /\ CanCall(c)
    /\ ~IsGoal(goal[c], start[c])
    /\ ~ExpandPanics(start[c])
    /\ goalCalls' = Bump(goalCalls, c, start[c])
    /\ discovered' = [discovered EXCEPT ![c] = {start[c]}]
    /\ visited' = [visited EXCEPT ![c] = VisitedNew(c)]
    /\ expandCalls' = Bump(expandCalls, c, start[c])
    /\ stack' = [stack EXCEPT ![c] = <<Frame(start[c], <<>>)>>]
    /\ pc' = [pc EXCEPT ![c] = "loop"]
    /\ UNCHANGED <<inputs, result, lastOp>>

\* lines 48-53: expand(start) panics
DfsStartPanic(c) ==
    /\ CanCall(c)
    /\ ~IsGoal(goal[c], start[c])
    /\ ExpandPanics(start[c])
    /\ goalCalls' = Bump(goalCalls, c, start[c])
    /\ discovered' = [discovered EXCEPT ![c] = {start[c]}]
    /\ visited' = [visited EXCEPT ![c] = VisitedNew(c)]
    /\ expandCalls' = Bump(expandCalls, c, start[c])
    /\ pc' = [pc EXCEPT ![c] = "panicked"]
    /\ UNCHANGED <<inputs, stack, result, lastOp>>

\* lines 56-57: no frame is left
DfsExhausted(c) ==
    /\ pc[c] = "loop"
    /\ stack[c] = <<>>
    /\ result' = [result EXCEPT ![c] = NoPath]
    /\ pc' = [pc EXCEPT ![c] = "done"]
    /\ UNCHANGED <<inputs, visited, stack, expandCalls, goalCalls, discovered, lastOp>>

\* lines 58, 74-76: the top iterator yields None
DfsBacktrack(c) ==
    /\ pc[c] = "loop"
    /\ stack[c] # <<>>
    /\ Top(stack[c]).iter = <<>>
    /\ stack' = [stack EXCEPT ![c] = Pop(@)]
    /\ UNCHANGED <<inputs, pc, visited, result, expandCalls, goalCalls, discovered, lastOp>>

DfsDiscardPops(c) ==
    /\ pc[c] = "loop"
    /\ stack[c] # <<>>
    /\ Top(stack[c]).iter # <<>>
    /\ IsVisited(VisitedOf(c), Head(Top(stack[c]).iter)[2])
    /\ lastOp' = Checked(c, Head(Top(stack[c]).iter)[2])
    /\ stack' = [stack EXCEPT ![c] = Pop(@)]
    /\ UNCHANGED <<inputs, pc, visited, result, expandCalls, goalCalls, discovered>>

DfsDiscardRetests(c) ==
    /\ pc[c] = "loop"
    /\ stack[c] # <<>>
    /\ Top(stack[c]).iter # <<>>
    /\ IsVisited(VisitedOf(c), Head(Top(stack[c]).iter)[2])
    /\ goalCalls' = Bump(goalCalls, c, Head(Top(stack[c]).iter)[2])
    /\ lastOp' = Checked(c, Head(Top(stack[c]).iter)[2])
    /\ stack' = [stack EXCEPT ![c] = Advance(@)]
    /\ UNCHANGED <<inputs, pc, visited, result, expandCalls, discovered>>

\* lines 58-63: the pair pulled leads to a visited state
DfsDiscard(c) ==
    /\ pc[c] = "loop"
    /\ stack[c] # <<>>
    /\ Top(stack[c]).iter # <<>>
    /\ IsVisited(VisitedOf(c), Head(Top(stack[c]).iter)[2])
    /\ lastOp' = Checked(c, Head(Top(stack[c]).iter)[2])
    /\ stack' = [stack EXCEPT ![c] = Advance(@)]
    /\ UNCHANGED <<inputs, pc, visited, result, expandCalls, goalCalls, discovered>>

DfsFoundMarks(c) ==
    /\ pc[c] = "loop"
    /\ stack[c] # <<>>
    /\ Top(stack[c]).iter # <<>>
    /\ LET action == Head(Top(stack[c]).iter)[1]
           state == Head(Top(stack[c]).iter)[2]
       IN  /\ ~IsVisited(VisitedOf(c), state)
           /\ IsGoal(goal[c], state)
           /\ goalCalls' = Bump(goalCalls, c, state)
           /\ discovered' = [discovered EXCEPT ![c] = @ \cup {state}]
           /\ visited' = [visited EXCEPT ![c] = VisitedInsert(VisitedOf(c), state)]
           /\ lastOp' = Inserted(c, state)
           /\ result' = [result EXCEPT ![c] = SomePath(CollectPath(Advance(stack[c]), action))]
    /\ stack' = [stack EXCEPT ![c] = <<>>]
    /\ pc' = [pc EXCEPT ![c] = "done"]
    /\ UNCHANGED <<inputs, expandCalls>>

\* lines 58-71: the pair pulled leads to a state that satisfies the goal
DfsFound(c) ==
    /\ pc[c] = "loop"
    /\ stack[c] # <<>>
    /\ Top(stack[c]).iter # <<>>
    /\ LET action == Head(Top(stack[c]).iter)[1]
           state == Head(Top(stack[c]).iter)[2]
       IN  /\ ~IsVisited(VisitedOf(c), state)
           /\ IsGoal(goal[c], state)
           /\ goalCalls' = Bump(goalCalls, c, state)
           /\ lastOp' = Checked(c, state)
           /\ discovered' = [discovered EXCEPT ![c] = @ \cup {state}]
           /\ result' = [result EXCEPT ![c] = SomePath(CollectPath(Advance(stack[c]), action))]
    /\ stack' = [stack EXCEPT ![c] = <<>>]
    /\ pc' = [pc EXCEPT ![c] = "done"]
    /\ UNCHANGED <<inputs, visited, expandCalls>>

\* lines 58-73: the pair pulled leads to a new state; descend into it
DfsDescend(c) ==
    /\ pc[c] = "loop"
    /\ stack[c] # <<>>
    /\ Top(stack[c]).iter # <<>>
    /\ LET action == Head(Top(stack[c]).iter)[1]
           state == Head(Top(stack[c]).iter)[2]
       IN  /\ ~IsVisited(VisitedOf(c), state)
           /\ ~IsGoal(goal[c], state)
           /\ ~ExpandPanics(state)
           /\ goalCalls' = Bump(goalCalls, c, state)
           /\ discovered' = [discovered EXCEPT ![c] = @ \cup {state}]
           /\ expandCalls' = Bump(expandCalls, c, state)
           /\ stack' = [stack EXCEPT ![c] = Append(Advance(@), Frame(state, <<action>>))]
           /\ visited' = [visited EXCEPT ![c] = VisitedInsert(VisitedOf(c), state)]
           /\ lastOp' = Inserted(c, state)
    /\ UNCHANGED <<inputs, pc, result>>

\* line 72: expand of the new state panics
DfsDescendPanic(c) ==
    /\ pc[c] = "loop"
    /\ stack[c] # <<>>
    /\ Top(stack[c]).iter # <<>>
    /\ LET state == Head(Top(stack[c]).iter)[2]
       IN  /\ ~IsVisited(VisitedOf(c), state)
           /\ ~IsGoal(goal[c], state)
           /\ ExpandPanics(state)
           /\ goalCalls' = Bump(goalCalls, c, state)
           /\ lastOp' = Checked(c, state)
           /\ discovered' = [discovered EXCEPT ![c] = @ \cup {state}]
           /\ expandCalls' = Bump(expandCalls, c, state)
    /\ stack' = [stack EXCEPT ![c] = Advance(@)]
    /\ pc' = [pc EXCEPT ![c] = "panicked"]
    /\ UNCHANGED <<inputs, visited, result>>

StartIsGoal == \E c \in Calls : DfsStartIsGoal(c)
StartExpand == \E c \in Calls : DfsStartExpand(c)
StartPanic == \E c \in Calls : DfsStartPanic(c)
Exhausted == \E c \in Calls : DfsExhausted(c)
Backtrack == \E c \in Calls : DfsBacktrack(c)
Discard == \E c \in Calls : DfsDiscard(c)
Found == \E c \in Calls : DfsFound(c)
Descend == \E c \in Calls : DfsDescend(c)
DescendPanic == \E c \in Calls : DfsDescendPanic(c)

Next ==
    \/ StartIsGoal
    \/ StartExpand
    \/ StartPanic
    \/ Exhausted
    \/ Backtrack
    \/ Discard
    \/ Found
    \/ Descend
    \/ DescendPanic

Spec == Init /\ [][Next]_vars

\* a running call keeps running: dfs is a plain loop on its caller's thread
LiveSpec == Init /\ [][Next]_vars /\ WF_vars(Next)

\* ---- the Visited tracker on its own ----------------------------------------
TrackerInit ==
    /\ mode = "tracker"
    /\ nodes = NodesOf(<<>>)
    /\ strict = FALSE
    /\ start = [c \in Calls |-> 0]
    /\ goal = [c \in Calls |-> {}]
    /\ Fresh

\* lines 18-20: is_visited(&self, value)
VisitedIsVisitedCall(c, value) ==
    /\ lastOp' = Checked(c, value)
    /\ UNCHANGED <<inputs, pc, visited, stack, result, expandCalls, goalCalls, discovered>>

\* lines 22-24: insert(&mut self, value)
VisitedInsertCall(c, value) ==
    /\ visited' = [visited EXCEPT ![c] = VisitedInsert(VisitedOf(c), value)]
    /\ lastOp' = Inserted(c, value)
    /\ UNCHANGED <<inputs, pc, stack, result, expandCalls, goalCalls, discovered>>

TrackerIsVisited == \E c \in Trackers, value \in States : VisitedIsVisitedCall(c, value)
TrackerInsert == \E c \in Trackers, value \in States : VisitedInsertCall(c, value)

TrackerNext ==
    \/ TrackerIsVisited
    \/ TrackerInsert

\* any sequence of calls on two Visited values
TrackerSpec == TrackerInit /\ [][TrackerNext]_vars

\* two calls on two threads, their loop passes interleaved in any order
ConcSpec == ConcInit /\ [][Next]_vars

\* the same call made MaxCalls times, each after the previous one returned
SeqSpec == SeqInit /\ [][Next]_vars

\* ---- dfs run to completion on its own -----------------------------------------
Panicked == [tag |-> "Panic", path |-> <<>>]

RECURSIVE DfsLoop(_, _, _)
DfsLoop(stk, vis, g) ==
    IF stk = <<>> THEN NoPath
    ELSE IF Top(stk).iter = <<>> THEN DfsLoop(Pop(stk), vis, g)
    ELSE LET action == Head(Top(stk).iter)[1]
             state == Head(Top(stk).iter)[2]
         IN  IF IsVisited(vis, state) THEN DfsLoop(Advance(stk), vis, g)
             ELSE IF IsGoal(g, state) THEN SomePath(CollectPath(Advance(stk), action))
             ELSE IF ExpandPanics(state) THEN Panicked
             ELSE DfsLoop(Append(Advance(stk), Frame(state, <<action>>)),
                          VisitedInsert(vis, state), g)

DfsAlone(s, g) ==
    IF IsGoal(g, s) THEN SomePath(<<>>)
    ELSE IF ExpandPanics(s) THEN Panicked
    ELSE DfsLoop(<<Frame(s, <<>>)>>, {}, g)

\* ---- replaying a path, reachability ---------------------------------------
NoState == 0 - 1

\* the state of the pair of expand(s) that carries action a (NoState when there is none)
Successor(s, a) ==
    LET hits == { i \in 1 .. Len(Expand(s)) : Expand(s)[i][1] = a }
    IN  IF s = NoState \/ hits = {} THEN NoState
        ELSE Expand(s)[CHOOSE i \in hits : \A j \in hits : i <= j][2]

RECURSIVE Replay(_, _)
Replay(s, path) ==
    IF path = <<>> THEN s ELSE Replay(Successor(s, Head(path)), Tail(path))

SuccessorsOf(s) == { Expand(s)[i][2] : i \in 1 .. Len(Expand(s)) }

RECURSIVE Closure(_)
Closure(S) ==
    LET T == S \cup UNION { SuccessorsOf(s) : s \in S }
    IN  IF T = S THEN S ELSE Closure(T)

Reachable(s) == Closure({s})

\* C1: whenever dfs returns a path, replaying its actions from the start
\* state through expand ends in a state that satisfies the goal.
PathValidity ==
    \A c \in Calls :
        result[c].tag = "Some" =>
            /\ Replay(start[c], result[c].path) # NoState
            /\ IsGoal(goal[c], Replay(start[c], result[c].path))

PathValidityWitness ==
    /\ result[1].tag = "Some"
    /\ Len(result[1].path) >= 2
    /\ Replay(start[1], result[1].path) # start[1]

\* C2: whenever dfs returns None, its stack is empty, no discovered state
\* satisfies the goal, every successor of a discovered state was discovered
\* and no state reachable from the start satisfies the goal.
FailureSoundness ==
    \A c \in Calls :
        result[c].tag = "None" =>
            /\ stack[c] = <<>>
            /\ start[c] \in discovered[c]
            /\ \A s \in discovered[c] :
                /\ ~IsGoal(goal[c], s)
                /\ SuccessorsOf(s) \subseteq discovered[c]
            /\ \A s \in Reachable(start[c]) : ~IsGoal(goal[c], s)

FailureSoundnessWitness ==
    /\ result[1].tag = "None"
    /\ Cardinality(discovered[1]) >= 2
    /\ \E s \in discovered[1] : Len(Expand(s)) >= 2
    /\ goal[1] # {}

\* C3: on a finite state space whose expand always yields a sequence, the
\* dfs call eventually returns, with a path or with None.
Termination ==
    (~strict) => <>(pc[1] = "done" /\ result[1].tag \in {"Some", "None"})

TerminationWitness ==
    /\ ~strict
    /\ pc[1] = "done"
    /\ result[1].tag = "None"
    /\ \E s \in Domain : expandCalls[1][s] >= 1 /\ s \in SuccessorsOf(s)

\* C4: if the start state satisfies the goal, dfs returns the empty path
\* without calling expand and without marking any state visited.
StartIsGoalImmediate ==
    \A c \in Calls :
        (pc[c] # "idle" /\ IsGoal(goal[c], start[c])) =>
            /\ pc[c] = "done"
            /\ result[c] = SomePath(<<>>)
            /\ \A s \in States : expandCalls[c][s] = 0
            /\ visited[c] = {}
            /\ stack[c] = <<>>

StartIsGoalWitness ==
    /\ pc[1] = "done"
    /\ IsGoal(goal[1], start[1])
    /\ start[1] \in Domain
    /\ nodes[start[1]] # <<>>

\* ---- paths that repeat no state, in yield order ------------------------------
\* action sequences of the paths from s to a state g accepts that visit no
\* state of seen and no state twice
RECURSIVE SimpleGoalPaths(_, _, _)
SimpleGoalPaths(s, g, seen) ==
    (IF IsGoal(g, s) THEN {<<>>} ELSE {}) \cup
    UNION { { <<Expand(s)[i][1]>> \o q :
                q \in SimpleGoalPaths(Expand(s)[i][2], g, seen \cup {s}) } :
            i \in { j \in 1 .. Len(Expand(s)) : Expand(s)[j][2] \notin seen \cup {s} } }

RECURSIVE LexLeq(_, _)
LexLeq(p, q) ==
    IF p = <<>> THEN TRUE
    ELSE IF q = <<>> THEN FALSE
    ELSE IF Head(p) # Head(q) THEN Head(p) < Head(q)
    ELSE LexLeq(Tail(p), Tail(q))

\* C5: within one dfs call expand is invoked at most once for each state,
\* the start state included.
ExpandAtMostOnce ==
    \A c \in Calls : \A s \in States : expandCalls[c][s] <= 1

\* C6: within one dfs call is_goal is invoked at most once for each state,
\* the start state included.
GoalTestAtMostOnce ==
    \A c \in Calls : \A s \in States : goalCalls[c][s] <= 1

\* C7: the path dfs returns repeats no state and is the least, in the
\* yield order of expand, of the paths to a goal state that repeat no state.
FirstInYieldOrder ==
    \A c \in Calls :
        result[c].tag = "Some" =>
            /\ result[c].path \in SimpleGoalPaths(start[c], goal[c], {})
            /\ \A q \in SimpleGoalPaths(start[c], goal[c], {}) : LexLeq(result[c].path, q)

\* C8: dfs calls made one after the other on the same state space, start and
\* goal return the same result, and each walks the same states as the first:
\* a call's visited set starts empty whatever the call before it visited.
Determinism ==
    \A c \in Calls :
        (c > 1 /\ pc[c] = "done") =>
            /\ result[c] = result[1]
            /\ visited[c] = visited[1]
            /\ expandCalls[c] = expandCalls[1]

DeterminismWitness ==
    /\ pc[2] = "done"
    /\ result[2].tag = "Some"
    /\ Cardinality(visited[1]) >= 2

\* C9: once expand has been called on a state outside the table of a state
\* space whose expand panics there, the call has ended in that panic and has
\* returned neither a path nor None.
PanicPropagates ==
    \A c \in Calls :
        (strict /\ \E s \in States \ Domain : expandCalls[c][s] >= 1) =>
            /\ pc[c] = "panicked"
            /\ result[c] = Pending

PanicPropagatesWitness ==
    /\ pc[1] = "panicked"
    /\ stack[1] # <<>>
    /\ visited[1] # {}

\* C10: two interleaved dfs calls over one state space each end as they end
\* when run alone, and a loop pass of one call changes nothing of the other.
OwnResult ==
    \A c \in ConcCalls :
        /\ pc[c] = "done" => result[c] = DfsAlone(start[c], goal[c])
        /\ pc[c] = "panicked" => DfsAlone(start[c], goal[c]) = Panicked

OwnState ==
    \E c \in Calls : \A d \in Calls \ {c} :
        /\ pc'[d] = pc[d]
        /\ visited'[d] = visited[d]
        /\ stack'[d] = stack[d]
        /\ result'[d] = result[d]

Isolation == []OwnResult /\ [][OwnState]_vars

IsolationWitness ==
    /\ pc[1] = "done" /\ pc[2] = "done"
    /\ result[1].tag = "Some" /\ result[2].tag = "None"
    /\ start[1] # start[2]
    /\ visited[1] # {} /\ visited[2] # {}
    /\ visited[1] # visited[2]

\* ---- the states along a path ---------------------------------------------------
RECURSIVE PathStates(_, _)
PathStates(s, path) ==
    IF path = <<>> THEN <<s>>
    ELSE <<s>> \o PathStates(Successor(s, Head(path)), Tail(path))

Distinct(seq) == \A i, j \in 1 .. Len(seq) : i # j => seq[i] # seq[j]

Owners(stk) == [i \in 1 .. Len(stk) |-> stk[i].owner]

\* C11: while the loop runs the start state is in the visited set, so a pair
\* leading back to the start is discarded, and a traversal from a start with
\* no successors ends None with the visited set equal to {start}.
StartMarkedVisited ==
    \A c \in Calls :
        /\ pc[c] = "loop" => start[c] \in visited[c]
        /\ (result[c].tag = "None" /\ Expand(start[c]) = <<>>) => visited[c] = {start[c]}

\* C12: the actions recorded on the frames, bottom to top, label a path of
\* the state space from the start state to the state the top frame expands,
\* each frame's action leading from the owner of the frame below to its own
\* owner; a path returned from the loop is that sequence with the final
\* action appended.
StackIsPath ==
    \A c \in Calls :
        stack[c] # <<>> =>
            /\ stack[c][1].owner = start[c]
            /\ stack[c][1].action = <<>>
            /\ \A i \in 2 .. Len(stack[c]) :
                /\ Len(stack[c][i].action) = 1
                /\ Successor(stack[c][i - 1].owner, stack[c][i].action[1]) = stack[c][i].owner
            /\ PathStates(start[c], FrameActions(stack[c])) = Owners(stack[c])

ReturnsStackPath ==
    \A c \in Calls :
        (pc[c] = "loop" /\ result'[c].tag = "Some") =>
            /\ stack[c] # <<>>
            /\ Top(stack[c]).iter # <<>>
            /\ result'[c].path = FrameActions(stack[c]) \o <<Head(Top(stack[c]).iter)[1]>>

StackInvariant == []StackIsPath /\ [][ReturnsStackPath]_vars

StackInvariantWitness ==
    /\ result[1].tag = "Some"
    /\ Len(result[1].path) >= 3

\* C13: no state owns two frames of the stack at the same time, and the
\* states along a returned path are pairwise distinct.
NoRepeatedState ==
    \A c \in Calls :
        /\ Distinct(Owners(stack[c]))
        /\ result[c].tag = "Some" => Distinct(PathStates(start[c], result[c].path))

\* ---- what one loop pass of a call changes ------------------------------------
CallState(c) == <<pc[c], visited[c], stack[c], result[c], expandCalls[c], goalCalls[c]>>

\* the pair at the head of the top frame leads to a visited state
DiscardCase(c) ==
    /\ pc[c] = "loop"
    /\ stack[c] # <<>>
    /\ Top(stack[c]).iter # <<>>
    /\ Head(Top(stack[c]).iter)[2] \in visited[c]

\* C14: a pass that pulls a pair leading to a visited state keeps the stack
\* depth, every frame's action and owner, the visited set, the result and the
\* counts of is_goal and expand calls; only the top frame moves on by one pair.
DiscardEffect ==
    \A c \in Calls :
        (DiscardCase(c) /\ CallState(c)' # CallState(c)) =>
            /\ pc'[c] = "loop"
            /\ Len(stack'[c]) = Len(stack[c])
            /\ \A i \in 1 .. Len(stack[c]) :
                /\ stack'[c][i].action = stack[c][i].action
                /\ stack'[c][i].owner = stack[c][i].owner
                /\ i < Len(stack[c]) => stack'[c][i].iter = stack[c][i].iter
            /\ Top(stack'[c]).iter = Tail(Top(stack[c]).iter)
            /\ visited'[c] = visited[c]
            /\ result'[c] = result[c]
            /\ expandCalls'[c] = expandCalls[c]
            /\ goalCalls'[c] = goalCalls[c]

DiscardEffectHolds == [][DiscardEffect]_vars

\* a pair of a frame that cannot have been descended into from it: it leads
\* to the frame's own owner, which was visited before the frame was pushed
DiscardEffectWitness ==
    /\ pc[1] = "loop"
    /\ Len(stack[1]) >= 2
    /\ LET top == Top(stack[1])
           k == Len(Expand(top.owner)) - Len(top.iter)
       IN  /\ k >= 1
           /\ top.owner # start[1]
           /\ Expand(top.owner)[k][2] = top.owner

\* C15: a frame is popped exactly when it is the top frame and yields no more
\* pairs; the pop removes that one frame with its action, leaves the frames
\* below as they were (the frame below resumes after the pair it had pulled)
\* and leaves the visited set unchanged.
BacktrackEffect ==
    \A c \in Calls :
        (pc[c] = "loop" /\ stack[c] # <<>> /\ CallState(c)' # CallState(c)) =>
            /\ (Top(stack[c]).iter = <<>>) <=>
                   (pc'[c] = "loop" /\ Len(stack'[c]) < Len(stack[c]))
            /\ Top(stack[c]).iter = <<>> =>
                /\ stack'[c] = SubSeq(stack[c], 1, Len(stack[c]) - 1)
                /\ visited'[c] = visited[c]
                /\ result'[c] = result[c]
                /\ expandCalls'[c] = expandCalls[c]
                /\ goalCalls'[c] = goalCalls[c]

BacktrackEffectHolds == [][BacktrackEffect]_vars

\* every frame was popped, the bottom one after the frames above it
BacktrackEffectWitness ==
    /\ pc[1] = "loop"
    /\ stack[1] = <<>>
    /\ Cardinality(visited[1]) >= 2

\* C16: no loop pass removes a state from a call's visited set.
NoEviction == [][\A c \in Calls : visited[c] \subseteq visited'[c]]_vars

NoEvictionWitness ==
    /\ pc[1] = "done"
    /\ result[1].tag = "None"
    /\ Cardinality(visited[1]) >= 2

\* C17: every visited state is reachable from the start state and does not
\* satisfy the goal, and expand is never called on a state that does.
VisitedReachableNonGoal ==
    \A c \in Calls :
        /\ visited[c] \subseteq Reachable(start[c])
        /\ \A s \in visited[c] : ~IsGoal(goal[c], s)
        /\ \A s \in States : expandCalls[c][s] >= 1 => ~IsGoal(goal[c], s)

VisitedReachableNonGoalWitness ==
    /\ result[1].tag = "Some"
    /\ Cardinality(visited[1]) >= 2
    /\ \A s \in visited[1] : expandCalls[1][s] >= 1

\* C18: the stack holds at most one frame more than there are visited
\* states, hence at most one more than there are states reachable from start.
StackDepthBound ==
    \A c \in Calls :
        /\ Len(stack[c]) <= 1 + Cardinality(visited[c])
        /\ Len(stack[c]) <= 1 + Cardinality(Reachable(start[c]))

StackDepthBoundWitness ==
    /\ Len(stack[1]) >= 3
    /\ Len(stack[1]) = 1 + Cardinality(visited[1])
    /\ Len(stack[1]) = 1 + Cardinality(Reachable(start[1]))

\* C19 as stated: insert returns whether the value was already in the set and
\* leaves it in the set.
InsertReturnsWasPresent ==
    \A c \in Trackers :
        (lastOp[c] # <<>> /\ lastOp[c][1].op = "insert") =>
            /\ lastOp[c][1].ret = (lastOp[c][1].value \in lastOp[c][1].before)
            /\ lastOp[c][1].value \in visited[c]

\* C19 as amended: insert returns whether the value was newly inserted (true
\* exactly when it was not in the set before) and leaves the set as it was
\* plus the value; is_visited returns whether the value is in the set and
\* leaves the set unchanged.
TrackerContract ==
    \A c \in Trackers :
        lastOp[c] # <<>> =>
            LET r == lastOp[c][1]
            IN  /\ r.op = "insert" =>
                    /\ r.ret = (r.value \notin r.before)
                    /\ visited[c] = r.before \cup {r.value}
                /\ r.op = "is_visited" =>
                    /\ r.ret = (r.value \in r.before)
                    /\ visited[c] = r.before

TrackerContractWitness ==
    /\ lastOp[1] # <<>>
    /\ lastOp[1][1].op = "insert"
    /\ lastOp[1][1].value \in lastOp[1][1].before
    /\ lastOp[1][1].ret = FALSE
    /\ Cardinality(visited[1]) >= 2

====
